---- MODULE Spec2Model ----
(***************************************************************************)
(* Shake&Tune web variants: the five calibration routines of               *)
(* src/shaketune/commands/*_web.py, run one statement at a time against a  *)
(* machine (velocity limits, input shaper, accelerometers, /tmp result     *)
(* files), and the processing service of src/shaketune/webservice/app.py.  *)
(***************************************************************************)
EXTENDS Integers, Sequences, FiniteSets, TLC

VARIABLES
    kind,          \* which routine runs: axes_map, shaper, belts, vibrations, excitate
    prm,           \* the gcmd parameters of the run
    cfg,           \* the printer configuration the run reads
    pc,            \* index of the next statement of the routine
    status,        \* "run", "done" (returned normally) or "error" (raised)
    limits,        \* toolhead.get_status(): max_accel, square_corner_velocity[, minimum_cruise_ratio]
    entry,         \* limits, shaping and result files as they were when the routine was called
    shaping,       \* input shaping currently enabled
    old,           \* old_accel / old_sqv / old_mcr once read
    accelerometer, \* the chip the local `accelerometer` is bound to ("" before)
    recording,     \* chips with a started, not yet stopped measurement
    unflushed,     \* labels stopped on the current Accelerometer object, not yet flushed
    orphaned,      \* unflushed labels of Accelerometer objects no longer referenced
    durable,       \* labels whose sample file wait_for_file_writes has confirmed
    measurements,  \* the (label, file) list built for the upload loop
    up,            \* upload loop: [idx, stage]
    results,       \* /tmp/<label>_result.png: "absent", "old", "new" or "partial"
    cmds,          \* every SET_VELOCITY_LIMIT issued, in order
    point,         \* the point of toolhead.manual_move(point, ...) once computed
    log,           \* every statement executed, in order: [ev, arg]
    reqs,          \* processing service: the requests being served
    fs,            \* processing service: files under UPLOAD_FOLDER (path -> bytes)
    dirs           \* processing service: output directories (dir -> artifact files)

clientVars == <<kind, prm, cfg, pc, status, limits, entry, shaping, old, accelerometer,
                recording, unflushed, orphaned, durable, measurements, up, results,
                cmds, point, log>>
serviceVars == <<reqs, fs, dirs>>
vars == <<clientVars, serviceVars>>

Kinds == {"axes_map", "shaper", "belts", "vibrations", "excitate"}
None == "None"

(***************************************************************************)
(* Programs: the statements of each routine in source order.               *)
(***************************************************************************)
Op(o, a) == [op |-> o, arg |-> a]

\* mutant: a segment whose recording is never stopped
AxesMapSegmentNoStop(axis) ==
    << Op("start", ""), Op("dwell", ""), Op("move", axis), Op("dwell", ""),
       Op("latest", "axesmap_" \o axis) >>

\* one axes-map segment: start, dwell, move, dwell, stop(label), get_latest_data_file(label)
AxesMapSegment(axis) ==
    << Op("start", ""), Op("dwell", ""), Op("move", axis), Op("dwell", ""),
       Op("stop", "axesmap_" \o axis), Op("latest", "axesmap_" \o axis) >>

\* mutant: the limits are restored and shaping re-enabled before the Z segment
AxesMapProgramEarlyRestore ==
    << Op("resolve", "xy"), Op("check_axes_map", ""),
       Op("save", ""), Op("set_limits", "scv"), Op("disable_shaping", ""),
       Op("move", "start"), Op("dwell", "") >>
    \o AxesMapSegment("X") \o << Op("dwell", "") >>
    \o AxesMapSegment("Y") \o << Op("dwell", "") >>
    \o << Op("enable_shaping", ""), Op("restore", "scv") >>
    \o AxesMapSegment("Z")
    \o << Op("wait_writes", ""), Op("wait_moves", ""), Op("upload", "axes_map") >>

AxesMapProgram ==
    << Op("resolve", "xy"), Op("check_axes_map", ""),
       Op("save", ""), Op("set_limits", "scv"), Op("disable_shaping", ""),
       Op("move", "start"), Op("dwell", "") >>
    \o AxesMapSegment("X") \o << Op("dwell", "") >>
    \o AxesMapSegment("Y") \o << Op("dwell", "") >>
    \o AxesMapSegment("Z")
    \o << Op("wait_writes", ""), Op("enable_shaping", ""), Op("restore", "scv"),
          Op("wait_moves", ""), Op("upload", "axes_map") >>

\* mutant: the belt pass without its wait_for_file_writes
BeltPassNoWait(belt) ==
    << Op("resolve", belt), Op("start", ""), Op("vibrate", belt),
       Op("stop", "belt_" \o belt), Op("latest", "belt_" \o belt),
       Op("dwell", ""), Op("wait_moves", "") >>

\* one pass of the `for belt in ['a', 'b']` loop
BeltPass(belt) ==
    << Op("resolve", belt), Op("start", ""), Op("vibrate", belt),
       Op("stop", "belt_" \o belt), Op("latest", "belt_" \o belt),
       Op("wait_writes", ""), Op("dwell", ""), Op("wait_moves", "") >>

\* mutant: the uploads are made while the machine is still in test configuration
BeltsProgramUploadFirst ==
    << Op("check_test_points", ""), Op("move", "point"), Op("dwell", ""),
       Op("save", ""), Op("set_limits", "noscv"), Op("disable_shaping", "") >>
    \o BeltPass("a") \o BeltPass("b")
    \o << Op("upload", "belts"), Op("enable_shaping", ""), Op("restore", "noscv") >>

BeltsProgram ==
    << Op("check_test_points", ""), Op("move", "point"), Op("dwell", ""),
       Op("save", ""), Op("set_limits", "noscv"), Op("disable_shaping", "") >>
    \o BeltPass("a") \o BeltPass("b")
    \o << Op("enable_shaping", ""), Op("restore", "noscv"), Op("upload", "belts") >>

ShaperRecord(axis) == << Op("start", ""), Op("stop", "shaper_calibrate_" \o axis) >>

ShaperLatest(axis) == << Op("latest", "shaper_calibrate_" \o axis) >>

\* mutant: with AXIS=both the data files are queued y first
ShaperProgramLatestReversed(p) ==
    << Op("check_axis", ""), Op("resolve", p.axis) >>
    \o (IF p.axis = "both"
        THEN (IF p.skip_x = 0 THEN ShaperRecord("x") ELSE << >>)
             \o (IF p.skip_y = 0 THEN ShaperRecord("y") ELSE << >>)
        ELSE ShaperRecord(p.axis))
    \o << Op("wait_writes", "") >>
    \o (IF p.axis = "both"
        THEN (IF p.skip_y = 0 THEN ShaperLatest("y") ELSE << >>)
             \o (IF p.skip_x = 0 THEN ShaperLatest("x") ELSE << >>)
        ELSE ShaperLatest(p.axis))
    \o << Op("upload", "shaper") >>

ShaperProgram(p) ==
    << Op("check_axis", ""), Op("resolve", p.axis) >>
    \o (IF p.axis = "both"
        THEN (IF p.skip_x = 0 THEN ShaperRecord("x") ELSE << >>)
             \o (IF p.skip_y = 0 THEN ShaperRecord("y") ELSE << >>)
        ELSE ShaperRecord(p.axis))
    \o << Op("wait_writes", "") >>
    \o (IF p.axis = "both"
        THEN (IF p.skip_x = 0 THEN ShaperLatest("x") ELSE << >>)
             \o (IF p.skip_y = 0 THEN ShaperLatest("y") ELSE << >>)
        ELSE ShaperLatest(p.axis))
    \o << Op("upload", "shaper") >>

VibrationsProgram ==
    << Op("resolve", "xy"), Op("save", ""), Op("set_limits", "unbound"),
       Op("disable_shaping", ""), Op("move", "x_min,y_min"), Op("dwell", ""),
       Op("start", ""), Op("dwell", ""),
       Op("move", "x_max,y_min"), Op("move", "x_max,y_max"),
       Op("move", "x_min,y_max"), Op("move", "x_min,y_min"),
       Op("dwell", ""), Op("stop", "vibrations"), Op("wait_writes", ""),
       Op("enable_shaping", ""), Op("restore", "unbound"), Op("wait_moves", ""),
       Op("latest", "vibrations"), Op("upload", "vibrations") >>

\* mutant: the recording is started whatever CREATE_GRAPH is
ExcitateProgramAlwaysRecord(p) ==
    << Op("check_axis", "") >>
    \o (IF p.create_graph
        THEN << Op("resolve", IF p.axis \in {"a", "b"} THEN "xy" ELSE p.axis) >>
        ELSE << >>)
    \o << Op("check_test_points", ""), Op("move", "point"), Op("dwell", ""),
          Op("disable_shaping", ""), Op("start", "") >>
    \o << Op("dwell", ""), Op("vibrate", p.axis), Op("dwell", ""),
          Op("enable_shaping", "") >>
    \o (IF p.create_graph
        THEN << Op("stop", "excitation"), Op("wait_writes", ""),
                Op("latest", "excitation"), Op("upload", "excitate") >>
        ELSE << >>)

ExcitateProgram(p) ==
    << Op("check_axis", "") >>
    \o (IF p.create_graph
        THEN << Op("resolve", IF p.axis \in {"a", "b"} THEN "xy" ELSE p.axis) >>
        ELSE << >>)
    \o << Op("check_test_points", ""), Op("move", "point"), Op("dwell", ""),
          Op("disable_shaping", "") >>
    \o (IF p.create_graph THEN << Op("start", "") >> ELSE << >>)
    \o << Op("dwell", ""), Op("vibrate", p.axis), Op("dwell", ""),
          Op("enable_shaping", "") >>
    \o (IF p.create_graph
        THEN << Op("stop", "excitation"), Op("wait_writes", ""),
                Op("latest", "excitation"), Op("upload", "excitate") >>
        ELSE << >>)

Program ==
    CASE kind = "axes_map"   -> AxesMapProgram
      [] kind = "shaper"     -> ShaperProgram(prm)
      [] kind = "belts"      -> BeltsProgram
      [] kind = "vibrations" -> VibrationsProgram
      [] kind = "excitate"   -> ExcitateProgram(prm)

Running == status = "run" /\ pc <= Len(Program)
Cur == Program[pc]
At(o) == Running /\ Cur.op = o

(***************************************************************************)
(* Helpers shared by the statements.                                       *)
(***************************************************************************)
Event(e, a) == [ev |-> e, arg |-> a]

\* the statement at pc returned: go on to the next one, or return from the routine
Step(e, a) ==
    /\ log' = Append(log, Event(e, a))
    /\ pc' = pc + 1
    /\ status' = IF pc + 1 > Len(Program) THEN "done" ELSE "run"

\* the statement at pc raised: the exception leaves the routine (no handler, no finally)
Raise(why) ==
    /\ log' = Append(log, Event("raise", why))
    /\ pc' = pc
    /\ status' = "error"

NoValues == [k \in {} |-> 0]

\* SET_VELOCITY_LIMIT: every parameter given replaces the limit of that name;
\* Python prints the float it read and the parser reads the same float back
Param(k) ==
    CASE k = "max_accel" -> "ACCEL"
      [] k = "square_corner_velocity" -> "SQUARE_CORNER_VELOCITY"
      [] k = "minimum_cruise_ratio" -> "MINIMUM_CRUISE_RATIO"

SetVelocityLimit(l, cmd) ==
    [k \in DOMAIN l |-> IF Param(k) \in DOMAIN cmd THEN cmd[Param(k)] ELSE l[k]]

TestSCV == 5

\* the command of the `if 'minimum_cruise_ratio' in toolhead_info` / else pair
TestCommand(withScv) ==
    [p \in {"ACCEL"}
        \cup (IF "mcr" \in DOMAIN old THEN {"MINIMUM_CRUISE_RATIO"} ELSE {})
        \cup (IF withScv THEN {"SQUARE_CORNER_VELOCITY"} ELSE {})
     |-> CASE p = "ACCEL" -> prm.accel
           [] p = "MINIMUM_CRUISE_RATIO" -> 0
           [] p = "SQUARE_CORNER_VELOCITY" -> TestSCV]

\* mutant: a machine that reported no minimum_cruise_ratio gets one on restore
RestoreCommandWithDefaultMcr(withScv) ==
    [p \in {"ACCEL", "MINIMUM_CRUISE_RATIO"}
        \cup (IF withScv THEN {"SQUARE_CORNER_VELOCITY"} ELSE {})
     |-> CASE p = "ACCEL" -> old["accel"]
           [] p = "MINIMUM_CRUISE_RATIO" -> IF "mcr" \in DOMAIN old THEN old["mcr"] ELSE 0
           [] p = "SQUARE_CORNER_VELOCITY" -> old["sqv"]]

\* the command of the `if old_mcr is not None` / else pair
RestoreCommand(withScv) ==
    [p \in {"ACCEL"}
        \cup (IF "mcr" \in DOMAIN old THEN {"MINIMUM_CRUISE_RATIO"} ELSE {})
        \cup (IF withScv THEN {"SQUARE_CORNER_VELOCITY"} ELSE {})
     |-> CASE p = "ACCEL" -> old["accel"]
           [] p = "MINIMUM_CRUISE_RATIO" -> old["mcr"]
           [] p = "SQUARE_CORNER_VELOCITY" -> old["sqv"]]

\* current_axes_map.strip().replace(' ', '') on a value given as its characters
RemoveSpaces(chars) == SelectSeq(chars, LAMBDA c : c # " ")

IdentityMap == << "x", ",", "y", ",", "z" >>

Sentinel == << -1, -1, -1 >>

\* the axis names each routine accepts
ValidAxes == IF kind = "shaper" THEN {"x", "y", "both"} ELSE {"x", "y", "a", "b"}

(***************************************************************************)
(* The statements of the routines.                                         *)
(***************************************************************************)
\* if axis not in [...]: raise gcmd.error  /  if axis_config is None: raise gcmd.error
CheckAxis ==
    /\ At("check_axis")
    /\ IF prm.axis \in ValidAxes THEN Step("check_axis", prm.axis) ELSE Raise("axis")
    /\ UNCHANGED <<serviceVars, kind, prm, cfg, limits, entry, shaping, old, accelerometer, recording,
                   unflushed, orphaned, durable, measurements, up, results, cmds, point>>

\* find_axis_accelerometer / lookup_object, then Accelerometer(reactor, chip)
Resolve ==
    /\ At("resolve")
    /\ IF cfg.chips[Cur.arg] = None
       THEN /\ Raise("accelerometer")
            /\ UNCHANGED <<accelerometer, unflushed, orphaned>>
       ELSE /\ Step("resolve", Cur.arg)
            /\ accelerometer' = cfg.chips[Cur.arg]
            /\ orphaned' = orphaned \cup unflushed
            /\ unflushed' = {}
    /\ UNCHANGED <<serviceVars, kind, prm, cfg, limits, entry, shaping, old, recording, durable,
                   measurements, up, results, cmds, point>>

\* mutant: the configured axes_map is compared as written, spaces included
CheckAxesMapExact ==
    /\ At("check_axes_map")
    /\ IF cfg.axes_map # << >> /\ cfg.axes_map # IdentityMap
       THEN Raise("axes_map")
       ELSE Step("check_axes_map", "")
    /\ UNCHANGED <<serviceVars, kind, prm, cfg, limits, entry, shaping, old, accelerometer, recording,
                   unflushed, orphaned, durable, measurements, up, results, cmds, point>>

\* axes_map of the chip's configuration must be absent or 'x,y,z' up to spaces
CheckAxesMap ==
    /\ At("check_axes_map")
    /\ IF cfg.axes_map # << >> /\ RemoveSpaces(cfg.axes_map) # IdentityMap
       THEN Raise("axes_map")
       ELSE Step("check_axes_map", "")
    /\ UNCHANGED <<serviceVars, kind, prm, cfg, limits, entry, shaping, old, accelerometer, recording,
                   unflushed, orphaned, durable, measurements, up, results, cmds, point>>

\* the point of the `test_points` block
TestPoint ==
    IF cfg.test_points[1] = Sentinel
    THEN << cfg.mid[1], cfg.mid[2], prm.z_height >>
    ELSE << cfg.test_points[1][1], cfg.test_points[1][2],
            IF prm.z_given THEN prm.z_height ELSE cfg.test_points[1][3] >>

\* mutant: without Z_HEIGHT the unset test point is taken at the default height
CheckTestPointsDefaultHeight ==
    /\ At("check_test_points")
    /\ IF Len(cfg.test_points) > 1
       THEN Raise("test_points") /\ UNCHANGED point
       ELSE Step("check_test_points", "") /\ point' = TestPoint
    /\ UNCHANGED <<serviceVars, kind, prm, cfg, limits, entry, shaping, old, accelerometer, recording,
                   unflushed, orphaned, durable, measurements, up, results, cmds>>

\* mutant: with several test points configured the first one is used
CheckTestPointsFirstPoint ==
    /\ At("check_test_points")
    /\ IF cfg.test_points[1] = Sentinel /\ ~prm.z_given
       THEN Raise("z_height") /\ UNCHANGED point
       ELSE Step("check_test_points", "") /\ point' = TestPoint
    /\ UNCHANGED <<serviceVars, kind, prm, cfg, limits, entry, shaping, old, accelerometer, recording,
                   unflushed, orphaned, durable, measurements, up, results, cmds>>

\* if len(test_points) > 1: raise; if test_points[0] == (-1, -1, -1): if z_height is None: raise
CheckTestPoints ==
    /\ At("check_test_points")
    /\ IF Len(cfg.test_points) > 1
       THEN Raise("test_points") /\ UNCHANGED point
       ELSE IF cfg.test_points[1] = Sentinel /\ ~prm.z_given
            THEN Raise("z_height") /\ UNCHANGED point
            ELSE Step("check_test_points", "") /\ point' = TestPoint
    /\ UNCHANGED <<serviceVars, kind, prm, cfg, limits, entry, shaping, old, accelerometer, recording,
                   unflushed, orphaned, durable, measurements, up, results, cmds>>

\* toolhead_info = toolhead.get_status(systime); old_accel, old_sqv, old_mcr
SaveLimits ==
    /\ At("save")
    /\ old' = [k \in {"accel", "sqv"}
                  \cup (IF "minimum_cruise_ratio" \in DOMAIN limits THEN {"mcr"} ELSE {})
               |-> CASE k = "accel" -> limits["max_accel"]
                     [] k = "sqv" -> limits["square_corner_velocity"]
                     [] k = "mcr" -> limits["minimum_cruise_ratio"]]
    /\ Step("save", "")
    /\ UNCHANGED <<serviceVars, kind, prm, cfg, limits, entry, shaping, accelerometer, recording,
                   unflushed, orphaned, durable, measurements, up, results, cmds, point>>

\* gcode.run_script_from_command('SET_VELOCITY_LIMIT ACCEL=... ') before the test;
\* where the routine never bound `gcode`, the statement raises NameError
SetTestLimits ==
    /\ At("set_limits")
    /\ IF Cur.arg = "unbound"
       THEN Raise("NameError") /\ UNCHANGED <<limits, cmds>>
       ELSE /\ Step("set_limits", Cur.arg)
            /\ limits' = SetVelocityLimit(limits, TestCommand(Cur.arg = "scv"))
            /\ cmds' = Append(cmds, TestCommand(Cur.arg = "scv"))
    /\ UNCHANGED <<serviceVars, kind, prm, cfg, entry, shaping, old, accelerometer, recording,
                   unflushed, orphaned, durable, measurements, up, results, point>>

\* if input_shaper is not None: input_shaper.disable_shaping()
DisableShaping ==
    /\ At("disable_shaping")
    /\ shaping' = IF cfg.has_shaper THEN FALSE ELSE shaping
    /\ Step("disable_shaping", IF cfg.has_shaper THEN "called" ELSE "skipped")
    /\ UNCHANGED <<serviceVars, kind, prm, cfg, limits, entry, old, accelerometer, recording,
                   unflushed, orphaned, durable, measurements, up, results, cmds, point>>

\* if input_shaper is not None: input_shaper.enable_shaping()
EnableShaping ==
    /\ At("enable_shaping")
    /\ shaping' = IF cfg.has_shaper THEN TRUE ELSE shaping
    /\ Step("enable_shaping", IF cfg.has_shaper THEN "called" ELSE "skipped")
    /\ UNCHANGED <<serviceVars, kind, prm, cfg, limits, entry, old, accelerometer, recording,
                   unflushed, orphaned, durable, measurements, up, results, cmds, point>>

\* gcode.run_script_from_command('SET_VELOCITY_LIMIT ACCEL={old_accel} ...') after the test
RestoreLimits ==
    /\ At("restore")
    /\ Step("restore", Cur.arg)
    /\ limits' = SetVelocityLimit(limits, RestoreCommand(Cur.arg = "scv"))
    /\ cmds' = Append(cmds, RestoreCommand(Cur.arg = "scv"))
    /\ UNCHANGED <<serviceVars, kind, prm, cfg, entry, shaping, old, accelerometer, recording,
                   unflushed, orphaned, durable, measurements, up, results, point>>

\* toolhead.move / manual_move / dwell / wait_moves, vibrate_axis, vibrate_axis_at_static_freq
MotionOps == {"move", "dwell", "vibrate", "wait_moves"}

Motion ==
    /\ Running /\ Cur.op \in MotionOps
    /\ \/ Step(Cur.op, Cur.arg)
       \/ Raise("motion")
    /\ UNCHANGED <<serviceVars, kind, prm, cfg, limits, entry, shaping, old, accelerometer, recording,
                   unflushed, orphaned, durable, measurements, up, results, cmds, point>>

\* accelerometer.start_measurement()
StartMeasurement ==
    /\ At("start")
    /\ \/ Step("start", accelerometer) /\ recording' = recording \cup {accelerometer}
       \/ Raise("start") /\ UNCHANGED recording
    /\ UNCHANGED <<serviceVars, kind, prm, cfg, limits, entry, shaping, old, accelerometer,
                   unflushed, orphaned, durable, measurements, up, results, cmds, point>>

\* accelerometer.stop_measurement(label, append_time=True)
StopMeasurement ==
    /\ At("stop")
    /\ \/ /\ Step("stop", Cur.arg)
          /\ recording' = recording \ {accelerometer}
          /\ unflushed' = unflushed \cup {Cur.arg}
       \/ Raise("stop") /\ UNCHANGED <<recording, unflushed>>
    /\ UNCHANGED <<serviceVars, kind, prm, cfg, limits, entry, shaping, old, accelerometer,
                   orphaned, durable, measurements, up, results, cmds, point>>

\* accelerometer.wait_for_file_writes()
WaitForFileWrites ==
    /\ At("wait_writes")
    /\ \/ /\ Step("wait_writes", accelerometer)
          /\ durable' = durable \cup unflushed
          /\ unflushed' = {}
       \/ Raise("flush") /\ UNCHANGED <<durable, unflushed>>
    /\ UNCHANGED <<serviceVars, kind, prm, cfg, limits, entry, shaping, old, accelerometer, recording,
                   orphaned, measurements, up, results, cmds, point>>

\* measurements.append((label, accelerometer.get_latest_data_file(label)))
GetLatestDataFile ==
    /\ At("latest")
    /\ \/ Step("latest", Cur.arg) /\ measurements' = Append(measurements, Cur.arg)
       \/ Raise("file") /\ UNCHANGED measurements
    /\ UNCHANGED <<serviceVars, kind, prm, cfg, limits, entry, shaping, old, accelerometer, recording,
                   unflushed, orphaned, durable, up, results, cmds, point>>

(***************************************************************************)
(* The upload loop: for test_name, filepath in measurements: try: ...      *)
(***************************************************************************)
Labels == {"axesmap_X", "axesmap_Y", "axesmap_Z", "belt_a", "belt_b",
           "shaper_calibrate_x", "shaper_calibrate_y", "vibrations", "excitation"}

\* the characters of each label
LabelChars(l) ==
    CASE l = "axesmap_X" -> << "a", "x", "e", "s", "m", "a", "p", "_", "X" >>
      [] l = "axesmap_Y" -> << "a", "x", "e", "s", "m", "a", "p", "_", "Y" >>
      [] l = "axesmap_Z" -> << "a", "x", "e", "s", "m", "a", "p", "_", "Z" >>
      [] l = "belt_a" -> << "b", "e", "l", "t", "_", "a" >>
      [] l = "belt_b" -> << "b", "e", "l", "t", "_", "b" >>
      [] l = "shaper_calibrate_x" ->
            << "s", "h", "a", "p", "e", "r", "_", "c", "a", "l", "i", "b", "r", "a", "t", "e", "_", "x" >>
      [] l = "shaper_calibrate_y" ->
            << "s", "h", "a", "p", "e", "r", "_", "c", "a", "l", "i", "b", "r", "a", "t", "e", "_", "y" >>
      [] l = "vibrations" -> << "v", "i", "b", "r", "a", "t", "i", "o", "n", "s" >>
      [] l = "excitation" -> << "e", "x", "c", "i", "t", "a", "t", "i", "o", "n" >>

\* mutant: the sample is sent under the bare label
UploadFileNameNoExtension(l) == LabelChars(l)

\* files={'file': (f'{test_name}.csv', f)}
UploadFileName(l) == LabelChars(l) \o << ".", "c", "s", "v" >>

\* f'{webservice_url}/process/<macro_type>': the macro_type of the routine's upload block
UploadOps == { i \in DOMAIN Program : Program[i].op = "upload" }
Endpoint == Program[CHOOSE i \in UploadOps : TRUE].arg

\* the multipart request of requests.post(url, files={'file': (name, f)})
ClientRequest(l) ==
    [has_file |-> TRUE, filename |-> UploadFileName(l), macro_type |-> Endpoint]

Uploading == At("upload") /\ up.idx <= Len(measurements)
UpLabel == measurements[up.idx]

\* the loop body raised: gcmd.error leaves the loop and the routine
RaiseAfter(e, a, why) ==
    /\ log' = log \o << Event(e, a), Event("raise", why) >>
    /\ pc' = pc
    /\ status' = "error"

\* with open(filepath, 'rb') as f
OpenSample ==
    /\ Uploading /\ up.stage = "open"
    /\ \/ /\ log' = Append(log, Event("open_sample", UpLabel))
          /\ up' = [up EXCEPT !.stage = "post"]
          /\ UNCHANGED <<pc, status>>
       \/ Raise("IOError") /\ UNCHANGED up
    /\ UNCHANGED <<serviceVars, kind, prm, cfg, limits, entry, shaping, old, accelerometer, recording,
                   unflushed, orphaned, durable, measurements, results, cmds, point>>

\* mutant: a failed POST is noted and the loop goes on with the next label
PostKeepGoing ==
    /\ Uploading /\ up.stage = "post"
    /\ \/ /\ log' = log \o << Event("post", UpLabel), Event("post_ok", UpLabel) >>
          /\ up' = [up EXCEPT !.stage = "write"]
       \/ /\ log' = log \o << Event("post", UpLabel), Event("post_failed", UpLabel) >>
          /\ up' = [idx |-> up.idx + 1, stage |-> "open"]
    /\ UNCHANGED <<pc, status>>
    /\ UNCHANGED <<serviceVars, kind, prm, cfg, limits, entry, shaping, old, accelerometer, recording,
                   unflushed, orphaned, durable, measurements, results, cmds, point>>

\* mutant: response.raise_for_status() is missing, an error body is saved too
PostWithoutRaiseForStatus ==
    /\ Uploading /\ up.stage = "post"
    /\ \/ /\ log' = log \o << Event("post", UpLabel), Event("post_ok", UpLabel) >>
          /\ up' = [up EXCEPT !.stage = "write"]
          /\ UNCHANGED <<pc, status>>
       \/ RaiseAfter("post", UpLabel, "RequestException") /\ UNCHANGED up
       \/ /\ log' = log \o << Event("post", UpLabel), Event("post_error_status", UpLabel) >>
          /\ up' = [up EXCEPT !.stage = "write"]
          /\ UNCHANGED <<pc, status>>
    /\ UNCHANGED <<serviceVars, kind, prm, cfg, limits, entry, shaping, old, accelerometer, recording,
                   unflushed, orphaned, durable, measurements, results, cmds, point>>

\* response = requests.post(url/process/<macro_type>, files=...); response.raise_for_status()
Post ==
    /\ Uploading /\ up.stage = "post"
    /\ \/ /\ log' = log \o << Event("post", UpLabel), Event("post_ok", UpLabel) >>
          /\ up' = [up EXCEPT !.stage = "write"]
          /\ UNCHANGED <<pc, status>>
       \/ RaiseAfter("post", UpLabel, "RequestException") /\ UNCHANGED up
       \/ RaiseAfter("post", UpLabel, "HTTPError") /\ UNCHANGED up
    /\ UNCHANGED <<serviceVars, kind, prm, cfg, limits, entry, shaping, old, accelerometer, recording,
                   unflushed, orphaned, durable, measurements, results, cmds, point>>

\* with open('/tmp/<label>_result.png', 'wb') as f: f.write(response.content)
WriteResult ==
    /\ Uploading /\ up.stage = "write"
    /\ \/ /\ log' = Append(log, Event("write_result", UpLabel))
          /\ results' = [results EXCEPT ![UpLabel] = "new"]
          /\ up' = [idx |-> up.idx + 1, stage |-> "open"]
          /\ UNCHANGED <<pc, status>>
       \/ Raise("IOError open") /\ UNCHANGED <<up, results>>
       \/ /\ RaiseAfter("write_result", UpLabel, "IOError write")
          /\ results' = [results EXCEPT ![UpLabel] = "partial"]
          /\ UNCHANGED up
    /\ UNCHANGED <<serviceVars, kind, prm, cfg, limits, entry, shaping, old, accelerometer, recording,
                   unflushed, orphaned, durable, measurements, cmds, point>>

\* the loop is over: ConsoleOutput.print("... complete!") and return
UploadDone ==
    /\ At("upload") /\ up.idx > Len(measurements)
    /\ Step("complete", Cur.arg)
    /\ UNCHANGED <<serviceVars, kind, prm, cfg, limits, entry, shaping, old, accelerometer, recording,
                   unflushed, orphaned, durable, measurements, up, results, cmds, point>>

(***************************************************************************)
(* Initial states: a routine is called on a machine in some configuration. *)
(***************************************************************************)
\* minimum_cruise_ratio is kept in percent
MachineLimits ==
    { [k \in {"max_accel", "square_corner_velocity", "minimum_cruise_ratio"} |->
          CASE k = "max_accel" -> 3000
            [] k = "square_corner_velocity" -> 8
            [] k = "minimum_cruise_ratio" -> 50],
      [k \in {"max_accel", "square_corner_velocity", "minimum_cruise_ratio"} |->
          CASE k = "max_accel" -> 1500
            [] k = "square_corner_velocity" -> 5
            [] k = "minimum_cruise_ratio" -> 0],
      [k \in {"max_accel", "square_corner_velocity"} |->
          CASE k = "max_accel" -> 3000
            [] k = "square_corner_velocity" -> 8],
      [k \in {"max_accel", "square_corner_velocity"} |->
          CASE k = "max_accel" -> 1500
            [] k = "square_corner_velocity" -> 5] }

AxisKeys == {"xy", "x", "y", "both", "a", "b"}

\* one accelerometer (or none) for every axis
OneChip == { [k \in AxisKeys |-> c] : c \in {None, "adxl_1"} }

\* the belt routine asks for belt 'a' and belt 'b'
BeltChips ==
    { [k \in AxisKeys |-> IF k = "a" THEN ca ELSE IF k = "b" THEN cb ELSE None] :
        ca \in {None, "adxl_1"}, cb \in {None, "adxl_1", "adxl_2"} }

\* [resonance_tester] test points: the sentinel alone, or 1..MaxTestPoints points
MaxTestPoints == 2

TestPointConfigs ==
    { << Sentinel >> } \cup { [i \in 1..n |-> << 50 * i, 60, 20 >>] : n \in 1..MaxTestPoints }

AxesMapConfigs ==
    { << >>, IdentityMap, << " ", "x", ",", " ", "y", ",", "z", " " >>,
      << "z", ",", "y", ",", "x" >> }

Params(k) ==
    CASE k = "axes_map" ->
           { [axis |-> "", skip_x |-> 0, skip_y |-> 0, create_graph |-> TRUE,
              z_given |-> TRUE, z_height |-> 20, accel |-> 1500] }
      [] k = "belts" ->
           { [axis |-> "", skip_x |-> 0, skip_y |-> 0, create_graph |-> TRUE,
              z_given |-> z, z_height |-> 15, accel |-> 10000] : z \in BOOLEAN }
      [] k = "shaper" ->
           { [axis |-> a, skip_x |-> sx, skip_y |-> sy, create_graph |-> TRUE,
              z_given |-> FALSE, z_height |-> 0, accel |-> 0] :
              a \in {"x", "y", "both", "z"}, sx \in {0, 1}, sy \in {0, 1} }
      [] k = "vibrations" ->
           { [axis |-> "", skip_x |-> 0, skip_y |-> 0, create_graph |-> TRUE,
              z_given |-> TRUE, z_height |-> 20, accel |-> 3000] }
      [] k = "excitate" ->
           { [axis |-> a, skip_x |-> 0, skip_y |-> 0, create_graph |-> g,
              z_given |-> z, z_height |-> 15, accel |-> 0] :
              a \in {"x", "a", "z"}, g \in BOOLEAN, z \in BOOLEAN }

Configs(k) ==
    { [has_shaper |-> h, chips |-> c, test_points |-> t, axes_map |-> m, mid |-> << 100, 100 >>] :
        h \in BOOLEAN,
        c \in IF k = "belts" THEN BeltChips ELSE OneChip,
        t \in IF k \in {"belts", "excitate"} THEN TestPointConfigs ELSE { << Sentinel >> },
        m \in IF k = "axes_map" THEN AxesMapConfigs ELSE { << >> } }

ServiceIdle ==
    /\ reqs = << >>
    /\ fs = << >>
    /\ dirs = << >>

Init ==
    /\ kind \in Kinds
    /\ prm \in Params(kind)
    /\ cfg \in Configs(kind)
    /\ limits \in MachineLimits
    /\ shaping \in IF cfg.has_shaper THEN BOOLEAN ELSE {FALSE}
    /\ results \in { [l \in Labels |-> f] : f \in {"absent", "old"} }
    /\ entry = [limits |-> limits, shaping |-> shaping, results |-> results]
    /\ pc = 1
    /\ status = "run"
    /\ old = NoValues
    /\ accelerometer = ""
    /\ recording = {}
    /\ unflushed = {}
    /\ orphaned = {}
    /\ durable = {}
    /\ measurements = << >>
    /\ up = [idx |-> 1, stage |-> "open"]
    /\ cmds = << >>
    /\ point = << >>
    /\ log = << >>
    /\ ServiceIdle

Next ==
    \/ CheckAxis
    \/ Resolve
    \/ CheckAxesMap
    \/ CheckTestPoints
    \/ SaveLimits
    \/ SetTestLimits
    \/ DisableShaping
    \/ Motion
    \/ StartMeasurement
    \/ StopMeasurement
    \/ WaitForFileWrites
    \/ GetLatestDataFile
    \/ EnableShaping
    \/ RestoreLimits
    \/ OpenSample
    \/ Post
    \/ WriteResult
    \/ UploadDone

Spec == Init /\ [][Next]_vars

(***************************************************************************)
(* The processing service: POST /process/<macro_type>, one thread per      *)
(* request (app.run serves requests concurrently).                         *)
(***************************************************************************)
Requests == {"r1", "r2"}

ALLOWED_EXTENSIONS == { << "c", "s", "v" >> }

Lower(c) == CASE c = "C" -> "c" [] c = "S" -> "s" [] c = "V" -> "v" [] OTHER -> c

LowerAll(chars) == [i \in 1..Len(chars) |-> Lower(chars[i])]

HasDot(chars) == \E i \in 1..Len(chars) : chars[i] = "."

LastDot(chars) == CHOOSE i \in 1..Len(chars) :
    chars[i] = "." /\ \A j \in (i + 1)..Len(chars) : chars[j] # "."

\* filename.rsplit('.', 1)[1]
Extension(chars) == SubSeq(chars, LastDot(chars) + 1, Len(chars))

\* mutant: the extension is compared without lower()
allowed_file_case_sensitive(filename) ==
    HasDot(filename) /\ Extension(filename) \in ALLOWED_EXTENSIONS

\* '.' in filename and filename.rsplit('.', 1)[1].lower() in ALLOWED_EXTENSIONS
allowed_file(filename) ==
    HasDot(filename) /\ LowerAll(Extension(filename)) \in ALLOWED_EXTENSIONS

\* werkzeug's secure_filename on the characters used here: path separators become
\* blanks, runs of blanks become one '_' (none at the ends), then '.' and '_' are
\* stripped from both ends
RECURSIVE JoinWords(_, _)
JoinWords(chars, started) ==
    IF chars = << >> THEN << >>
    ELSE IF Head(chars) \in {" ", "/"}
         THEN IF started /\ \E i \in 1..Len(chars) : chars[i] \notin {" ", "/"}
              THEN << "_" >> \o JoinWords(Tail(chars), FALSE)
              ELSE JoinWords(Tail(chars), FALSE)
         ELSE << Head(chars) >> \o JoinWords(Tail(chars), TRUE)

RECURSIVE StripEnds(_)
StripEnds(chars) ==
    IF chars = << >> THEN << >>
    ELSE IF Head(chars) \in {".", "_"} THEN StripEnds(Tail(chars))
    ELSE IF chars[Len(chars)] \in {".", "_"} THEN StripEnds(SubSeq(chars, 1, Len(chars) - 1))
    ELSE chars

secure_filename(filename) == StripEnds(JoinWords(filename, FALSE))

\* the file names a client may send, as characters
FileNames ==
    { << >>,
      << "a", ".", "c", "s", "v" >>,
      << "a", ".", "C", "S", "V" >>,
      << "a", " ", "b", ".", "c", "s", "v" >>,
      << "a", "_", "b", ".", "c", "s", "v" >>,
      << "a", ".", "t", "x", "t" >>,
      << "c", "s", "v" >> }

MacroTypes == {"axes_map", "belts", "shaper", "vibrations", "static", "excitate", "bogus"}

\* mutant: the chain without its excitate branch
CreatorWithoutExcitate(macro_type) ==
    CASE macro_type = "axes_map"   -> "AxesMapGraphCreator"
      [] macro_type = "belts"      -> "BeltsGraphCreator"
      [] macro_type = "shaper"     -> "ShaperGraphCreator"
      [] macro_type = "vibrations" -> "VibrationsGraphCreator"
      [] macro_type = "static"     -> "StaticGraphCreator"
      [] OTHER                     -> None

\* the if / elif chain on macro_type: the creator class, or None for the else branch
Creator(macro_type) ==
    CASE macro_type = "axes_map"   -> "AxesMapGraphCreator"
      [] macro_type = "belts"      -> "BeltsGraphCreator"
      [] macro_type = "shaper"     -> "ShaperGraphCreator"
      [] macro_type = "vibrations" -> "VibrationsGraphCreator"
      [] macro_type = "static"     -> "StaticGraphCreator"
      [] macro_type = "excitate"   -> "StaticGraphCreator"
      [] OTHER                     -> None

NoFile == << "/" >>
NoGraph == [ext |-> "", of |-> "", by |-> ""]
NoResponse == [status |-> 0, error |-> "", body |-> NoGraph, mimetype |-> ""]
NoBytes == ""

Paths == { secure_filename(n) : n \in FileNames }

\* the requests the service may receive: one without a 'file' field, every file
\* name under one macro type, and every macro type under one accepted file name
PlainName == << "a", ".", "c", "s", "v" >>

RequestShapes ==
    { [has_file |-> FALSE, filename |-> << >>, macro_type |-> "belts"] }
    \cup { [has_file |-> TRUE, filename |-> n, macro_type |-> "belts"] : n \in FileNames }
    \cup { [has_file |-> TRUE, filename |-> PlainName, macro_type |-> m] : m \in MacroTypes }

NewRequest(r, shape) ==
    [has_file |-> shape.has_file, filename |-> shape.filename,
     macro_type |-> shape.macro_type,
     bytes |-> "bytes of " \o r,
     pc |-> "validate", filepath |-> NoFile, output_dir |-> None, creator |-> None,
     read |-> NoBytes, graph |-> NoGraph, saved |-> FALSE, removed |-> NoBytes,
     response |-> NoResponse]

\* jsonify({"error": message}), status
Respond(q, st, message) ==
    [q EXCEPT !.response = [status |-> st, error |-> message, body |-> NoGraph,
                            mimetype |-> "application/json"]]

\* the three checks before the try block
Validate(r) ==
    /\ reqs[r].pc = "validate"
    /\ reqs' = [reqs EXCEPT ![r] =
          IF ~reqs[r].has_file
          THEN [Respond(@, 400, "No file provided") EXCEPT !.pc = "returned"]
          ELSE IF reqs[r].filename = << >>
          THEN [Respond(@, 400, "No file selected") EXCEPT !.pc = "returned"]
          ELSE IF ~allowed_file(reqs[r].filename)
          THEN [Respond(@, 400, "Invalid file type") EXCEPT !.pc = "returned"]
          ELSE [@ EXCEPT !.pc = "save"]]
    /\ UNCHANGED <<fs, dirs, clientVars>>

\* filename = secure_filename(file.filename); filepath = join(UPLOAD_FOLDER, filename);
\* file.save(filepath)
SaveUpload(r) ==
    /\ reqs[r].pc = "save"
    /\ \/ /\ fs' = [fs EXCEPT ![secure_filename(reqs[r].filename)] = reqs[r].bytes]
          /\ reqs' = [reqs EXCEPT ![r] =
                [@ EXCEPT !.filepath = secure_filename(reqs[r].filename),
                          !.saved = TRUE, !.pc = "mkdtemp"]]
       \/ /\ UNCHANGED fs
          /\ reqs' = [reqs EXCEPT ![r] =
                [Respond(@, 500, "save failed") EXCEPT
                    !.filepath = secure_filename(reqs[r].filename), !.pc = "cleanup"]]
    /\ UNCHANGED <<dirs, clientVars>>

\* output_dir = tempfile.mkdtemp(): a directory no other request has; when mkdtemp
\* raises, output_dir stays unbound and the except clause answers 500
MakeOutputDir(r) ==
    /\ reqs[r].pc = "mkdtemp"
    /\ \/ /\ dirs' = [dirs EXCEPT ![r] = [exists |-> TRUE, files |-> {}]]
          /\ reqs' = [reqs EXCEPT ![r] = [@ EXCEPT !.output_dir = r, !.pc = "dispatch"]]
       \/ /\ UNCHANGED dirs
          /\ reqs' = [reqs EXCEPT ![r] = [Respond(@, 500, "mkdtemp failed") EXCEPT !.pc = "cleanup"]]
    /\ UNCHANGED <<fs, clientVars>>

\* the if / elif chain; the else branch returns 400 from inside the try block
Dispatch(r) ==
    /\ reqs[r].pc = "dispatch"
    /\ reqs' = [reqs EXCEPT ![r] =
          IF Creator(reqs[r].macro_type) = None
          THEN [Respond(@, 400, "Unknown macro type: " \o reqs[r].macro_type)
                   EXCEPT !.pc = "cleanup"]
          ELSE [@ EXCEPT !.creator = Creator(reqs[r].macro_type), !.pc = "engine"]]
    /\ UNCHANGED <<fs, dirs, clientVars>>

ArtifactKinds == {"png", "pdf", "log"}

\* creator.create_graph(): the engine reads the file at filepath and leaves files in
\* output_dir, or raises; it raises when the file at filepath is gone
RunEngine(r) ==
    /\ reqs[r].pc = "engine"
    /\ \/ /\ fs[reqs[r].filepath] # NoBytes
          /\ \E made \in SUBSET ArtifactKinds :
                /\ dirs' = [dirs EXCEPT ![reqs[r].output_dir].files =
                              { [ext |-> e, of |-> fs[reqs[r].filepath],
                                 by |-> reqs[r].creator] : e \in made }]
                /\ reqs' = [reqs EXCEPT ![r] =
                              [@ EXCEPT !.read = fs[reqs[r].filepath], !.pc = "list"]]
       \/ /\ fs[reqs[r].filepath] # NoBytes
          /\ reqs' = [reqs EXCEPT ![r] =
                [Respond(@, 500, "engine raised") EXCEPT
                    !.read = fs[reqs[r].filepath], !.pc = "cleanup"]]
          /\ UNCHANGED dirs
       \/ /\ fs[reqs[r].filepath] = NoBytes
          /\ reqs' = [reqs EXCEPT ![r] =
                [Respond(@, 500, "FileNotFoundError") EXCEPT !.pc = "cleanup"]]
          /\ UNCHANGED dirs
    /\ UNCHANGED <<fs, clientVars>>

\* for file in os.listdir(output_dir): if file.endswith(('.png', '.pdf')); graph_files[0]
\* is the first of them in the order listdir gives
GraphFiles(r) == { f \in dirs[reqs[r].output_dir].files : f.ext \in {"png", "pdf"} }

ListGraphs(r) ==
    /\ reqs[r].pc = "list"
    /\ \/ /\ GraphFiles(r) = {}
          /\ reqs' = [reqs EXCEPT ![r] =
                [Respond(@, 500, "No graphs were generated") EXCEPT !.pc = "cleanup"]]
       \/ \E first \in GraphFiles(r) :
             reqs' = [reqs EXCEPT ![r] = [@ EXCEPT !.graph = first, !.pc = "send"]]
    /\ UNCHANGED <<fs, dirs, clientVars>>

\* return send_file(graph_files[0], mimetype='image/png')
SendFile(r) ==
    /\ reqs[r].pc = "send"
    /\ reqs' = [reqs EXCEPT ![r] =
          [@ EXCEPT !.response = [status |-> 200, error |-> "", body |-> reqs[r].graph,
                                  mimetype |-> "image/png"],
                    !.pc = "cleanup"]]
    /\ UNCHANGED <<fs, dirs, clientVars>>

\* finally: try: os.remove(filepath) ... except: pass.  When os.remove raises (the
\* file is gone, or the system refuses), or output_dir was never bound, the rest of
\* the try block is skipped
CleanupUpload(r) ==
    /\ reqs[r].pc = "cleanup"
    /\ \/ /\ fs[reqs[r].filepath] # NoBytes
          /\ fs' = [fs EXCEPT ![reqs[r].filepath] = NoBytes]
          /\ reqs' = [reqs EXCEPT ![r] =
                [@ EXCEPT !.removed = fs[reqs[r].filepath],
                          !.pc = IF reqs[r].output_dir = None
                                 THEN "returned" ELSE "cleanup_dir"]]
       \/ /\ reqs' = [reqs EXCEPT ![r] = [@ EXCEPT !.pc = "returned"]]
          /\ UNCHANGED fs
    /\ UNCHANGED <<dirs, clientVars>>

\* os.walk(output_dir, topdown=False): remove the files, then os.rmdir(output_dir)
CleanupOutputDir(r) ==
    /\ reqs[r].pc = "cleanup_dir"
    /\ dirs' = [dirs EXCEPT ![r] = [exists |-> FALSE, files |-> {}]]
    /\ reqs' = [reqs EXCEPT ![r] = [@ EXCEPT !.pc = "returned"]]
    /\ UNCHANGED <<fs, clientVars>>

\* no routine is running while the service is looked at on its own
ClientIdle ==
    /\ kind = "axes_map"
    /\ prm \in Params("axes_map")
    /\ cfg = [has_shaper |-> FALSE, chips |-> [k \in AxisKeys |-> None],
              test_points |-> << Sentinel >>, axes_map |-> << >>, mid |-> << 100, 100 >>]
    /\ limits = NoValues
    /\ shaping = FALSE
    /\ results = [l \in Labels |-> "absent"]
    /\ entry = [limits |-> limits, shaping |-> shaping, results |-> results]
    /\ pc = 1
    /\ status = "idle"
    /\ old = NoValues
    /\ accelerometer = ""
    /\ recording = {}
    /\ unflushed = {}
    /\ orphaned = {}
    /\ durable = {}
    /\ measurements = << >>
    /\ up = [idx |-> 1, stage |-> "open"]
    /\ cmds = << >>
    /\ point = << >>
    /\ log = << >>

ServiceInit ==
    /\ ClientIdle
    /\ reqs \in { [r \in Requests |-> NewRequest(r, sh[r])] : sh \in [Requests -> RequestShapes] }
    /\ fs = [p \in Paths \cup {NoFile} |-> NoBytes]
    /\ dirs = [r \in Requests |-> [exists |-> FALSE, files |-> {}]]

ServiceNext ==
    \/ \E r \in Requests : Validate(r)
    \/ \E r \in Requests : SaveUpload(r)
    \/ \E r \in Requests : MakeOutputDir(r)
    \/ \E r \in Requests : Dispatch(r)
    \/ \E r \in Requests : RunEngine(r)
    \/ \E r \in Requests : ListGraphs(r)
    \/ \E r \in Requests : SendFile(r)
    \/ \E r \in Requests : CleanupUpload(r)
    \/ \E r \in Requests : CleanupOutputDir(r)

ServiceSpec == ServiceInit /\ [][ServiceNext]_vars

(***************************************************************************)
(* Properties of the calibration routines.                                 *)
(***************************************************************************)
Events(e) == { i \in DOMAIN log : log[i].ev = e }
Called(e) == { i \in DOMAIN log : log[i] = Event(e, "called") }
Restorations == Called("enable_shaping") \cup Events("restore")
Mutations == Called("disable_shaping") \cup Events("set_limits")
RaisedWith(whys) ==
    status = "error" /\ log # << >> /\ log[Len(log)].ev = "raise" /\ log[Len(log)].arg \in whys
StepFailures == {"motion", "start", "stop", "flush", "file"}
UploadFailures == {"RequestException", "HTTPError", "IOError", "IOError open", "IOError write"}
Posted(l) == \E i \in Events("post") : log[i].arg = l

\* C1: when a motion or accelerometer step fails after the routine changed the
\* limits or disabled shaping, the routine has put the limits back to the values
\* it was called with and re-enabled shaping by the time it returns its error.
C1_RestoredOnFailure ==
    (RaisedWith(StepFailures) /\ Mutations # {}) =>
        /\ limits = entry.limits
        /\ (Called("disable_shaping") # {} => shaping)

\* C2 as stated: a run that returns normally leaves the limits as they were at
\* entry, read the saved values before the first SET_VELOCITY_LIMIT, issued the
\* restore command exactly once, and sent no MINIMUM_CRUISE_RATIO in it when the
\* machine reports none.
SavedBeforeFirstSet ==
    \A i \in Events("set_limits") : \E j \in Events("save") : j < i
RestoreHasNoAbsentMcr ==
    \A i \in DOMAIN cmds :
        "minimum_cruise_ratio" \notin DOMAIN entry.limits =>
            "MINIMUM_CRUISE_RATIO" \notin DOMAIN cmds[i]
C3_ResolveBeforeMutate ==
    RaisedWith({"accelerometer"}) => Mutations = {}

\* C4: a routine that toggles shaping and returns normally leaves shaping as it
\* was at entry (still disabled when it was disabled at entry).
C4_ShapingAsAtEntry ==
    (status = "done" /\ Called("disable_shaping") # {}) => shaping = entry.shaping

\* C7 as stated: a failed upload or result write for one label does not stop the
\* POSTs for the later labels: when the routine ends in error every label after
\* the failing one was POSTed.
C7_LaterLabelsAttempted ==
    RaisedWith(UploadFailures) =>
        \A i \in (up.idx + 1)..Len(measurements) : Posted(measurements[i])

\* C7 amended: the first failed upload or failed result write ends the routine in
\* error at once: every label before the failing one was POSTed and its result
\* written, and no POST was attempted for any later label.
C7_FailFast ==
    RaisedWith(UploadFailures) =>
        /\ \A i \in 1..(up.idx - 1) :
              /\ Posted(measurements[i])
              /\ \E j \in Events("write_result") : log[j].arg = measurements[i]
        /\ \A i \in (up.idx + 1)..Len(measurements) : ~Posted(measurements[i])

C7_Witness ==
    /\ RaisedWith({"RequestException", "HTTPError"})
    /\ kind = "axes_map"
    /\ up.idx = 2
    /\ Len(measurements) = 3

\* C8: a label's result file is written only after the POST for that label
\* returned a success status; when the POST for a label fails, that label's
\* result file is as it was at entry and the result files written for earlier
\* labels of the run are as they were written.
C8_ResultOnlyAfterSuccess ==
    /\ \A i \in Events("write_result") :
          i > 1 /\ log[i - 1] = Event("post_ok", log[i].arg)
    /\ \A l \in Labels :
          results[l] # entry.results[l] =>
              \E i \in Events("post_ok") : log[i].arg = l
    /\ RaisedWith({"RequestException", "HTTPError"}) =>
          /\ results[UpLabel] = entry.results[UpLabel]
          /\ \A i \in 1..(up.idx - 1) : results[measurements[i]] = "new"

C8_Witness ==
    /\ RaisedWith({"HTTPError"})
    /\ up.idx = 2
    /\ entry.results[UpLabel] = "old"
    /\ results[measurements[1]] = "new"

\* C9: no sample file is opened or POSTed before wait_for_file_writes returned
\* on the Accelerometer object that recorded its label, and that wait came after
\* the stop_measurement of the label.
C9_FlushedBeforeUpload ==
    \A i \in Events("open_sample") \cup Events("post") :
        /\ log[i].arg \in durable
        /\ \E j \in Events("wait_writes") :
              /\ j < i
              /\ \E k \in Events("stop") : k < j /\ log[k].arg = log[i].arg

C9_Witness ==
    /\ kind = "belts"
    /\ Posted("belt_a")
    /\ Posted("belt_b")
    /\ cfg.chips["a"] # cfg.chips["b"]

NoTestActivity ==
    /\ Events("move") = {}
    /\ Events("vibrate") = {}
    /\ Events("set_limits") = {}
    /\ Events("restore") = {}
    /\ cmds = << >>
    /\ limits = entry.limits
    /\ Called("disable_shaping") = {}
    /\ Called("enable_shaping") = {}
    /\ shaping = entry.shaping
    /\ Events("start") = {}
    /\ recording = {}

UnsetTestPoint == Len(cfg.test_points) = 1 /\ cfg.test_points[1] = << -1, -1, -1 >>

\* C11: in the belts and excitate routines, with the single test point at the
\* sentinel (-1,-1,-1) and no Z_HEIGHT the routine fails with an error before any
\* move, SET_VELOCITY_LIMIT, shaping change or accelerometer start; with Z_HEIGHT
\* the point is (mid X, mid Y, Z_HEIGHT); a configured point is used as it is, its
\* Z replaced by Z_HEIGHT only when Z_HEIGHT is supplied; the travel move is made
\* only once the point is known.
C11_SentinelNeedsZHeight ==
    kind \in {"belts", "excitate"} =>
        /\ (UnsetTestPoint /\ ~prm.z_given) =>
              /\ NoTestActivity
              /\ Events("check_test_points") = {}
              /\ point = << >>
              /\ status # "done"
        /\ RaisedWith({"z_height"}) => (UnsetTestPoint /\ ~prm.z_given /\ NoTestActivity)
        /\ Events("check_test_points") # {} =>
              point = IF UnsetTestPoint
                      THEN << cfg.mid[1], cfg.mid[2], prm.z_height >>
                      ELSE IF prm.z_given
                           THEN << cfg.test_points[1][1], cfg.test_points[1][2], prm.z_height >>
                           ELSE cfg.test_points[1]
        /\ \A i \in Events("move") :
              log[i].arg = "point" => \E j \in Events("check_test_points") : j < i

C11_Witness ==
    /\ kind = "excitate"
    /\ RaisedWith({"z_height"})
    /\ Events("resolve") # {}
    /\ cfg.has_shaper

\* C12: in the belts and excitate routines, with more than one test point
\* configured the routine fails with an error before any move, SET_VELOCITY_LIMIT,
\* shaping change or accelerometer start, and no point is ever taken (the first
\* point is not used as a fallback).
C12_SinglePointOnly ==
    kind \in {"belts", "excitate"} =>
        /\ Len(cfg.test_points) > 1 =>
              /\ NoTestActivity
              /\ Events("check_test_points") = {}
              /\ point = << >>
              /\ status # "done"
        /\ RaisedWith({"test_points"}) => (Len(cfg.test_points) > 1 /\ NoTestActivity)

C12_Witness ==
    /\ kind = "belts"
    /\ RaisedWith({"test_points"})
    /\ prm.z_given
    /\ Len(cfg.test_points) = 2

\* C13: in the axes-map routine, an axes_map value of the resolved chip that
\* differs from 'x,y,z' once its spaces are removed makes the routine fail before
\* any move, SET_VELOCITY_LIMIT, shaping change or accelerometer start; an absent
\* axes_map, or one equal to 'x,y,z' up to spaces, never fails this check.
NonIdentityAxesMap ==
    cfg.axes_map # << >> /\ SelectSeq(cfg.axes_map, LAMBDA c : c # " ") # << "x", ",", "y", ",", "z" >>

C13_NonIdentityAxesMapRejected ==
    kind = "axes_map" =>
        /\ NonIdentityAxesMap =>
              /\ NoTestActivity
              /\ Events("check_axes_map") = {}
              /\ status # "done"
        /\ RaisedWith({"axes_map"}) => (NonIdentityAxesMap /\ NoTestActivity)
        /\ \A i \in Events("set_limits") \cup Events("move") \cup Events("start") :
              \E j \in Events("check_axes_map") : j < i

C13_Witness ==
    /\ kind = "axes_map"
    /\ RaisedWith({"axes_map"})
    /\ Events("resolve") # {}
    /\ cfg.axes_map = << "z", ",", "y", ",", "x" >>

\* C17: every recording brackets motion: between each stop_measurement and the
\* start_measurement it closes, at least one test motion (a move, a sweep or a
\* fixed-frequency excitation) was executed.
TestMotions == {"move", "vibrate"}

C17_RecordingBracketsMotion ==
    \A i \in Events("stop") :
        \E j \in Events("start") :
            /\ j < i
            /\ \A k \in Events("stop") : ~(j < k /\ k < i)
            /\ \E m \in (j + 1)..(i - 1) : log[m].ev \in TestMotions

\* C18: a vibrations run with a resolvable accelerometer fails only when a move,
\* the accelerometer or the upload fails, and a run that returns normally has moved
\* to (x_min, y_min), started one session, traversed (x_max,y_min), (x_max,y_max),
\* (x_min,y_max), (x_min,y_min) in that order, stopped the session under
\* 'vibrations' and POSTed that one recording to /process/vibrations.
TestEvents == SelectSeq(log, LAMBDA e : e.ev \in {"move", "start", "stop", "post", "complete"})

C18_VibrationsRectangle ==
    kind = "vibrations" =>
        /\ status = "error" =>
              RaisedWith({"accelerometer"} \cup StepFailures \cup UploadFailures)
        /\ status = "done" =>
              TestEvents = << Event("move", "x_min,y_min"), Event("start", cfg.chips["xy"]),
                              Event("move", "x_max,y_min"), Event("move", "x_max,y_max"),
                              Event("move", "x_min,y_max"), Event("move", "x_min,y_min"),
                              Event("stop", "vibrations"), Event("post", "vibrations"),
                              Event("complete", "vibrations") >>

\* C19: the excitate routine uses the accelerometer only with CREATE_GRAPH=1.
\* With CREATE_GRAPH=0 no accelerometer is resolved, started, stopped or flushed,
\* nothing is POSTed and no result file is written, and a run that returns has
\* moved to the point, disabled shaping, excited the axis and re-enabled shaping,
\* in that order.  With CREATE_GRAPH=1 a run that returns has made exactly one
\* start, one stop (label 'excitation'), one flush wait and one POST to
\* /process/excitate, in that order, and no run makes more than one of each.
AccelerometerEvents ==
    Events("resolve") \cup Events("start") \cup Events("stop") \cup Events("wait_writes")
        \cup Events("latest") \cup Events("open_sample") \cup Events("post")
        \cup Events("write_result")

TheOne(e) == CHOOSE i \in Events(e) : TRUE

C19_AccelerometerOnlyForGraph ==
    kind = "excitate" =>
        /\ ~prm.create_graph =>
              /\ AccelerometerEvents = {}
              /\ accelerometer = ""
              /\ recording = {}
              /\ measurements = << >>
              /\ results = entry.results
              /\ status = "done" =>
                    /\ Cardinality(Events("move")) = 1
                    /\ Cardinality(Events("vibrate")) = 1
                    /\ Cardinality(Events("disable_shaping")) = 1
                    /\ Cardinality(Events("enable_shaping")) = 1
                    /\ TheOne("move") < TheOne("disable_shaping")
                    /\ TheOne("disable_shaping") < TheOne("vibrate")
                    /\ TheOne("vibrate") < TheOne("enable_shaping")
                    /\ log[TheOne("vibrate")].arg = prm.axis
        /\ prm.create_graph =>
              /\ \A e \in {"start", "stop", "wait_writes", "post"} : Cardinality(Events(e)) <= 1
              /\ \A i \in Events("stop") \cup Events("post") : log[i].arg = "excitation"
              /\ \A i \in Events("stop") : \E j \in Events("start") : j < i
              /\ \A i \in Events("wait_writes") : \E j \in Events("stop") : j < i
              /\ \A i \in Events("post") : \E j \in Events("wait_writes") : j < i
              /\ Events("post") # {} => Program[Len(Program)] = Op("upload", "excitate")
              /\ status = "done" =>
                    /\ \A e \in {"start", "stop", "wait_writes", "post"} :
                          Cardinality(Events(e)) = 1
                    /\ Cardinality(Events("vibrate")) = 1
                    /\ TheOne("start") < TheOne("vibrate")
                    /\ TheOne("vibrate") < TheOne("stop")
                    /\ results["excitation"] = "new"

C19_Witness ==
    /\ kind = "excitate"
    /\ ~prm.create_graph
    /\ status = "done"
    /\ Events("vibrate") # {}
    /\ Called("disable_shaping") # {}

\* C20: in the shaper routine each axis can be skipped whatever AXIS is: with
\* SKIP_X non-zero no 'shaper_calibrate_x' recording is made or uploaded, with
\* SKIP_Y non-zero no 'shaper_calibrate_y' recording is made or uploaded, and on a
\* run that returns normally the labels uploaded are the labels recorded.
Recorded(l) == \E i \in Events("stop") : log[i].arg = l

C20_AxesSkippable ==
    kind = "shaper" =>
        /\ prm.skip_x # 0 =>
              ~Recorded("shaper_calibrate_x") /\ ~Posted("shaper_calibrate_x")
        /\ prm.skip_y # 0 =>
              ~Recorded("shaper_calibrate_y") /\ ~Posted("shaper_calibrate_y")
        /\ status = "done" => \A l \in Labels : Posted(l) <=> Recorded(l)

\* C21: start_measurement and stop_measurement alternate on each accelerometer,
\* beginning with a start: a session is never started on an accelerometer that is
\* recording, never stopped on one that is not, and none is recording when the
\* routine returns normally.
StartStops == SelectSeq(log, LAMBDA e : e.ev \in {"start", "stop"})

C21_StartStopAlternate ==
    /\ At("start") => accelerometer \notin recording
    /\ At("stop") => accelerometer \in recording
    /\ \A i \in DOMAIN StartStops :
          StartStops[i].ev = IF i % 2 = 1 THEN "start" ELSE "stop"
    /\ Cardinality(recording) <= 1
    /\ recording # {} <=> Len(StartStops) % 2 = 1
    /\ status = "done" => recording = {}

C21_Witness ==
    /\ kind = "belts"
    /\ status = "done"
    /\ cfg.chips["a"] = cfg.chips["b"]
    /\ Len(StartStops) = 4

\* C22: when an upload is attempted the machine is out of test configuration:
\* every test SET_VELOCITY_LIMIT was followed by the restoring one and every
\* disable_shaping by an enable_shaping before the first sample was opened or
\* POSTed, so a failed upload or result write leaves the limits as at entry.
UploadAttempts == Events("open_sample") \cup Events("post")

C22_RestoredBeforeUpload ==
    /\ \A i \in UploadAttempts :
          /\ \A j \in Events("set_limits") : \E k \in Events("restore") : j < k /\ k < i
          /\ \A j \in Called("disable_shaping") :
                \E k \in Called("enable_shaping") : j < k /\ k < i
          /\ \A j \in Mutations : j < i
    /\ (UploadAttempts # {} \/ RaisedWith(UploadFailures)) =>
          /\ limits = entry.limits
          /\ Called("disable_shaping") # {} => shaping

C22_Witness ==
    /\ kind = "belts"
    /\ RaisedWith({"HTTPError"})
    /\ Len(cmds) = 2
    /\ cmds[1]["ACCEL"] # entry.limits["max_accel"]
    /\ Called("disable_shaping") # {}

\* C23: whenever an accelerometer session is recording on a machine that has the
\* input shaper, shaping is disabled.
C23_NoShapingWhileRecording ==
    (recording # {} /\ cfg.has_shaper) => ~shaping

\* C24: the labels are POSTed in the order they were recorded, each at most once
\* and one at a time (the result of a label is written before the next label is
\* POSTed); on a run where every upload succeeded each recorded label was POSTed
\* exactly once; the only files the upload changes are the result files of the
\* labels POSTed, and the samples stay as they were flushed.
PostLabels == [i \in DOMAIN SelectSeq(log, LAMBDA e : e.ev = "post") |->
                  SelectSeq(log, LAMBDA e : e.ev = "post")[i].arg]
StopLabels == [i \in DOMAIN SelectSeq(log, LAMBDA e : e.ev = "stop") |->
                  SelectSeq(log, LAMBDA e : e.ev = "stop")[i].arg]

C24_PostedOnceInOrder ==
    /\ Len(PostLabels) <= Len(StopLabels)
    /\ PostLabels = SubSeq(StopLabels, 1, Len(PostLabels))
    /\ \A i, j \in DOMAIN PostLabels : i # j => PostLabels[i] # PostLabels[j]
    /\ \A i, j \in Events("post") :
          i < j => \E w \in Events("write_result") : i < w /\ w < j /\ log[w].arg = log[i].arg
    /\ \A i \in Events("post") :
          i < Len(log) /\ log[i + 1] \in {Event("post_ok", log[i].arg),
                                         Event("raise", "RequestException"),
                                         Event("raise", "HTTPError")}
    /\ \A l \in Labels : results[l] # entry.results[l] => Posted(l)
    /\ \A l \in Labels : Posted(l) => l \in durable
    /\ status = "done" =>
          /\ PostLabels = StopLabels
          /\ \A l \in Labels : Recorded(l) => results[l] = "new"

C24_Witness ==
    /\ kind = "shaper"
    /\ status = "done"
    /\ PostLabels = << "shaper_calibrate_x", "shaper_calibrate_y" >>
    /\ entry.results["shaper_calibrate_x"] = "old"

\* C25: every request a routine POSTs passes the service's checks: it has the
\* 'file' field, a non-empty file name with the extension csv, and a macro_type
\* for which the service's if / elif chain has an engine; the upload block of
\* every routine names such a macro_type.
Accepted(request) ==
    /\ request.has_file
    /\ request.filename # << >>
    /\ allowed_file(request.filename)
    /\ Creator(request.macro_type) # None

C25_ClientRequestsAccepted ==
    /\ \A i \in Events("post") :
          /\ Accepted(ClientRequest(log[i].arg))
          /\ secure_filename(ClientRequest(log[i].arg).filename) = ClientRequest(log[i].arg).filename
    /\ UploadOps # {} =>
          /\ Endpoint \in {"axes_map", "shaper", "belts", "vibrations", "excitate"}
          /\ Creator(Endpoint) # None

C25_Witness ==
    /\ kind = "excitate"
    /\ Posted("excitation")
    /\ \E i \in Events("post_ok") : log[i].arg = "excitation"
    /\ Creator(Endpoint) = "StaticGraphCreator"

(***************************************************************************)
(* Properties of the processing service.                                   *)
(***************************************************************************)
\* C5: once a request has returned, the upload it saved and the output
\* directory it created no longer exist.
C5_NothingLeftBehind ==
    \A r \in Requests :
        reqs[r].pc = "returned" =>
            /\ ~dirs[r].exists
            /\ reqs[r].saved => fs[reqs[r].filepath] # reqs[r].bytes

\* C6: two requests served concurrently do not interfere: each engine reads the
\* bytes its own request uploaded, each response is built from them, and each
\* cleanup removes its own upload.
C6_NoInterference ==
    \A r \in Requests :
        /\ reqs[r].read \in {NoBytes, reqs[r].bytes}
        /\ reqs[r].removed \in {NoBytes, reqs[r].bytes}
        /\ reqs[r].response.status = 200 => reqs[r].response.body.of = reqs[r].bytes
        /\ reqs[r].response.error # "FileNotFoundError"

\* the engine each macro_type stands for
Engine(macro_type) ==
    CASE macro_type = "axes_map"   -> "AxesMapGraphCreator"
      [] macro_type = "belts"      -> "BeltsGraphCreator"
      [] macro_type = "shaper"     -> "ShaperGraphCreator"
      [] macro_type = "vibrations" -> "VibrationsGraphCreator"
      [] macro_type \in {"static", "excitate"} -> "StaticGraphCreator"
      [] OTHER -> None

KnownMacroTypes == {"axes_map", "belts", "shaper", "vibrations", "static", "excitate"}

\* the request got past the creator selection
Dispatched(r) == reqs[r].output_dir # None /\ reqs[r].pc # "dispatch"

\* C14: for a request with a valid .csv upload the engine is selected by
\* macro_type: axes_map, belts, shaper, vibrations and static each get their own
\* engine, excitate gets the static engine, and any other macro_type is answered
\* with 400 and a message containing that macro_type, no engine having been
\* created or run.
C14_EngineByMacroType ==
    \A r \in Requests :
        /\ reqs[r].creator # None => reqs[r].creator = Engine(reqs[r].macro_type)
        /\ (Dispatched(r) /\ reqs[r].macro_type \in KnownMacroTypes) =>
              reqs[r].creator = Engine(reqs[r].macro_type)
        /\ (Dispatched(r) /\ reqs[r].macro_type \notin KnownMacroTypes) =>
              /\ reqs[r].response.status = 400
              /\ reqs[r].response.error = "Unknown macro type: " \o reqs[r].macro_type
              /\ reqs[r].creator = None
              /\ reqs[r].read = NoBytes
              /\ dirs[r].files = {}
        /\ reqs[r].pc \in {"engine", "list", "send"} => reqs[r].creator # None
        /\ \A f \in dirs[r].files : f.by = Engine(reqs[r].macro_type)

C14_Witness ==
    /\ reqs["r1"].macro_type = "bogus"
    /\ reqs["r1"].response.status = 400
    /\ reqs["r2"].macro_type = "excitate"
    /\ reqs["r2"].creator = "StaticGraphCreator"
    /\ dirs["r2"].files # {}

\* the file names whose extension after the last dot is not 'csv' in any case
RejectedNames == { << "a", ".", "t", "x", "t" >>, << "c", "s", "v" >> }

InvalidUpload(r) ==
    \/ ~reqs[r].has_file
    \/ reqs[r].filename = << >>
    \/ reqs[r].filename \in RejectedNames

NothingStarted(r) ==
    /\ ~reqs[r].saved
    /\ reqs[r].filepath = NoFile
    /\ reqs[r].output_dir = None
    /\ ~dirs[r].exists
    /\ reqs[r].creator = None
    /\ reqs[r].read = NoBytes

EngineFailures == {"engine raised", "FileNotFoundError", "No graphs were generated"}

C16_BodyIsPng ==
    \A r \in Requests :
        reqs[r].response.status = 200 =>
            /\ reqs[r].response.mimetype = "image/png"
            /\ reqs[r].response.body.ext = "png"
            /\ reqs[r].response.body.by = reqs[r].creator

====
